---- MODULE Spec2Model ----
(***************************************************************************)
(* A model of the Chick-fil-A menu pipeline: collector.py, structurer.py,  *)
(* loader.py and streamlit_app.py.                                         *)
(*                                                                         *)
(* Text (str) is a sequence of one-character strings.  An object literal   *)
(* of a JSON text is one token ("{A1}", "{}", ...) that stands for the     *)
(* characters of that literal; every other token is a single character.   *)
(* A Python dict is a function from its keys to its values.  A timestamp   *)
(* (datetime.now().isoformat()) is the integer reading of the clock.       *)
(***************************************************************************)
EXTENDS Integers, Sequences, FiniteSets, TLC

VARIABLES
    arg,        \* the input of the function a functional specification applies
    ret,        \* what the function returned
    fpc,        \* "call" before the function is applied, "done" after
    clock,      \* wall-clock time, in seconds
    rawFile,    \* data/raw_blob.txt
    menuFile,   \* data/menu_data.json
    table,      \* the rows of the remote table chickfila_menu
    loader,     \* the loader process: its position, its locals and its output
    prevRun,    \* the previous completed loader run (its input file, the table it left)
    dash        \* the dashboard: the cache of get_menu_data, the last render

vars == <<arg, ret, fpc, clock, rawFile, menuFile, table, loader, prevRun, dash>>

(***************************************************************************)
(* Bounds of the model.                                                    *)
(***************************************************************************)
MaxCalLen == 4        \* the longest enumerated calories string
MaxAllergenLen == 4   \* the longest enumerated allergens string
MaxItems == 2         \* the most elements of an enumerated model response
MaxDfRows == 2        \* the most rows of an enumerated fetch
MaxTicks == 2         \* the clock stops after this many ticks
MaxLoaderRuns == 2    \* the loader is run at most this many times

(***************************************************************************)
(* Python's str and list primitives.                                       *)
(***************************************************************************)
Whitespace == {" ", "\n"}

DigitChars == {"0", "1", "2", "3", "4", "5", "6", "7", "8", "9"}

DigitVal(c) ==
    CASE c = "0" -> 0 [] c = "1" -> 1 [] c = "2" -> 2 [] c = "3" -> 3
      [] c = "4" -> 4 [] c = "5" -> 5 [] c = "6" -> 6 [] c = "7" -> 7
      [] c = "8" -> 8 [] c = "9" -> 9

\* s[n:]
DropFirst(s, n) == IF n >= Len(s) THEN <<>> ELSE SubSeq(s, n + 1, Len(s))

\* s[:-n]
DropLast(s, n) == IF n >= Len(s) THEN <<>> ELSE SubSeq(s, 1, Len(s) - n)

\* s.startswith(p)
startswith(s, p) == Len(s) >= Len(p) /\ SubSeq(s, 1, Len(p)) = p

\* s.endswith(p)
endswith(s, p) == Len(s) >= Len(p) /\ SubSeq(s, Len(s) - Len(p) + 1, Len(s)) = p

RECURSIVE lstrip(_)
lstrip(s) == IF s # <<>> /\ Head(s) \in Whitespace THEN lstrip(Tail(s)) ELSE s

RECURSIVE rstrip(_)
rstrip(s) ==
    IF s # <<>> /\ s[Len(s)] \in Whitespace THEN rstrip(DropLast(s, 1)) ELSE s

\* s.strip()
strip(s) == rstrip(lstrip(s))

\* s.split(","): the parts between the commas, empty parts included
RECURSIVE split_from(_, _, _)
split_from(s, cur, acc) ==
    IF s = <<>> THEN Append(acc, cur)
    ELSE IF Head(s) = "," THEN split_from(Tail(s), <<>>, Append(acc, cur))
    ELSE split_from(Tail(s), Append(cur, Head(s)), acc)

split_comma(s) == split_from(s, <<>>, <<>>)

\* all the sequences over S of length at most n
SeqsUpTo(S, n) == UNION {[1..k -> S] : k \in 0..n}

(***************************************************************************)
(* JSON values and json.loads.  A value carries its type in t.             *)
(***************************************************************************)
JStr(s) == [t |-> "str", v |-> s]
JArr(xs) == [t |-> "arr", v |-> xs]
JObj(d) == [t |-> "obj", v |-> d]
JNum(n) == [t |-> "num", v |-> n]

EmptyDict == <<>>

\* The object literals of the model and the dict each one decodes to.
ObjAtoms == {"{A1}", "{A2}", "{B}", "{}"}

ObjOf(a) ==
    CASE a = "{A1}" -> [id |-> "x", name |-> "Fries", price |-> "p1"]
      [] a = "{A2}" -> [id |-> "x", name |-> "Fries", price |-> "p2"]
      [] a = "{B}" -> [id |-> "y", price |-> "p1"]
      [] a = "{}" -> EmptyDict

DecodeFail == [ok |-> FALSE, val |-> JArr(<<>>), next |-> 0]

\* the first position at or after i that holds no whitespace
RECURSIVE SkipWs(_, _)
SkipWs(s, i) == IF i <= Len(s) /\ s[i] \in Whitespace THEN SkipWs(s, i + 1) ELSE i

\* the position of the quote that closes a string opened before i (0: none)
RECURSIVE CloseQuote(_, _)
CloseQuote(s, i) ==
    IF i > Len(s) \/ s[i] = "\n" THEN 0
    ELSE IF s[i] = "\"" THEN i
    ELSE CloseQuote(s, i + 1)

\* the last position of the digit run that starts at i
RECURSIVE DigitRunEnd(_, _)
DigitRunEnd(s, i) ==
    IF i + 1 <= Len(s) /\ s[i + 1] \in DigitChars THEN DigitRunEnd(s, i + 1) ELSE i

RECURSIVE ParseValue(_, _)
RECURSIVE ParseElems(_, _, _)

\* one JSON value starting at position i, which holds no whitespace
ParseValue(s, i) ==
    IF i > Len(s) THEN DecodeFail
    ELSE IF s[i] = "[" THEN
        LET j == SkipWs(s, i + 1) IN
        IF j <= Len(s) /\ s[j] = "]"
        THEN [ok |-> TRUE, val |-> JArr(<<>>), next |-> j + 1]
        ELSE ParseElems(s, j, <<>>)
    ELSE IF s[i] = "\"" THEN
        LET k == CloseQuote(s, i + 1) IN
        IF k = 0 THEN DecodeFail
        ELSE [ok |-> TRUE, val |-> JStr(SubSeq(s, i + 1, k - 1)), next |-> k + 1]
    ELSE IF s[i] \in ObjAtoms THEN
        [ok |-> TRUE, val |-> JObj(ObjOf(s[i])), next |-> i + 1]
    ELSE IF s[i] \in DigitChars THEN
        LET e == DigitRunEnd(s, i) IN
        IF s[i] = "0" /\ e > i THEN DecodeFail
        ELSE [ok |-> TRUE, val |-> JNum(SubSeq(s, i, e)), next |-> e + 1]
    ELSE DecodeFail

\* the elements of an array after its "[", from position i on
ParseElems(s, i, acc) ==
    LET r == ParseValue(s, i) IN
    IF ~r.ok THEN DecodeFail
    ELSE LET j == SkipWs(s, r.next) IN
         IF j > Len(s) THEN DecodeFail
         ELSE IF s[j] = "]"
         THEN [ok |-> TRUE, val |-> JArr(Append(acc, r.val)), next |-> j + 1]
         ELSE IF s[j] = ","
         THEN ParseElems(s, SkipWs(s, j + 1), Append(acc, r.val))
         ELSE DecodeFail

\* json.loads(s): ok is FALSE where it raises JSONDecodeError
json_loads(s) ==
    LET r == ParseValue(s, SkipWs(s, 1)) IN
    IF r.ok /\ SkipWs(s, r.next) = Len(s) + 1
    THEN [ok |-> TRUE, val |-> r.val]
    ELSE [ok |-> FALSE, val |-> JArr(<<>>)]

(***************************************************************************)
(* streamlit_app.py: clean_calories.                                       *)
(***************************************************************************)
NoneInt == [some |-> FALSE, val |-> 0]
SomeInt(n) == [some |-> TRUE, val |-> n]

\* re.findall(r"\d+", s), scanning from position i
RECURSIVE findall_digits(_, _)
findall_digits(s, i) ==
    IF i > Len(s) THEN <<>>
    ELSE IF s[i] \in DigitChars
    THEN LET e == DigitRunEnd(s, i) IN <<SubSeq(s, i, e)>> \o findall_digits(s, e + 1)
    ELSE findall_digits(s, i + 1)

\* int(ds) of a run of decimal digits
RECURSIVE int_of(_)
int_of(ds) ==
    IF ds = <<>> THEN 0 ELSE 10 * int_of(DropLast(ds, 1)) + DigitVal(ds[Len(ds)])

\* a plausible slip: the last run of digits instead of the first
clean_calories_last(v) ==
    IF v.isna THEN NoneInt
    ELSE LET nums == findall_digits(v.s, 1) IN
         IF nums # <<>> THEN SomeInt(int_of(nums[Len(nums)])) ELSE NoneInt

\* v is the cell: isna where pd.isna(v), else s is str(v)
clean_calories(v) ==
    IF v.isna THEN NoneInt
    ELSE LET nums == findall_digits(v.s, 1) IN
         IF nums # <<>> THEN SomeInt(int_of(nums[1])) ELSE NoneInt

(***************************************************************************)
(* streamlit_app.py: the allergen loop of main.  A cell of the allergens   *)
(* column is a list (kind "list"), a string (kind "str") or missing        *)
(* (kind "nan").                                                           *)
(***************************************************************************)
ListCell(xs) == [kind |-> "list", list |-> xs, str |-> <<>>]
StrCell(s) == [kind |-> "str", list |-> <<>>, str |-> s]
NanCell == [kind |-> "nan", list |-> <<>>, str |-> <<>>]

\* [t.strip() for t in s.split(",") if t.strip()]
RECURSIVE strip_nonempty(_)
strip_nonempty(parts) ==
    IF parts = <<>> THEN <<>>
    ELSE LET t == strip(Head(parts)) IN
         (IF t # <<>> THEN <<JStr(t)>> ELSE <<>>) \o strip_nonempty(Tail(parts))

\* a plausible slip: the bracket test on the string as stored, not stripped
allergen_tags_unstripped(a) ==
    IF a.kind = "list" THEN a.list
    ELSE LET s == strip(a.str) IN
         IF startswith(a.str, <<"[">>) /\ endswith(a.str, <<"]">>)
         THEN LET r == json_loads(s) IN IF r.ok THEN r.val.v ELSE <<>>
         ELSE IF s # <<>> THEN strip_nonempty(split_comma(s))
         ELSE <<>>

\* what one cell extends all_allergens by (the body of the loop)
allergen_tags(a) ==
    IF a.kind = "list" THEN a.list
    ELSE LET s == strip(a.str) IN
         IF startswith(s, <<"[">>) /\ endswith(s, <<"]">>)
         THEN LET r == json_loads(s) IN IF r.ok THEN r.val.v ELSE <<>>
         ELSE IF s # <<>> THEN strip_nonempty(split_comma(s))
         ELSE <<>>

\* all_allergens after the loop over filtered_df["allergens"].dropna()
RECURSIVE all_allergens(_)
all_allergens(column) ==
    IF column = <<>> THEN <<>>
    ELSE (IF Head(column).kind = "nan" THEN <<>> ELSE allergen_tags(Head(column)))
         \o all_allergens(Tail(column))

(***************************************************************************)
(* structurer.py: structure_menu_simple.                                   *)
(***************************************************************************)
SOURCE_URL == "https://www.chick-fil-a.com/menu/sides"

\* the backtick character (written as a token: the lexer takes no backtick)
BT == "BT"

\* '```json' and '```'
FenceJson == <<BT, BT, BT, "j", "s", "o", "n">>
Fence == <<BT, BT, BT>>

\* d[k] = v
SetKey(d, k, v) == [x \in DOMAIN d \cup {k} |-> IF x = k THEN v ELSE d[x]]

\* the body of the stamping loop for one item
StampExtracted(d, now) == SetKey(SetKey(d, "source_url", SOURCE_URL), "extracted_at", now)

\* the stamping loop over a list: done is FALSE where an item raises
\* (item[...] = ... on a value that is no dict), items the ones stamped so far
RECURSIVE StampAll(_, _, _)
StampAll(xs, now, acc) ==
    IF xs = <<>> THEN [done |-> TRUE, items |-> acc]
    ELSE IF Head(xs).t # "obj" THEN [done |-> FALSE, items |-> acc]
    ELSE StampAll(Tail(xs), now, Append(acc, JObj(StampExtracted(Head(xs).v, now))))

\* the response of the model call: the call raises ("raise"), the message has
\* no content ("none"), or the content is text
RespRaise == [kind |-> "raise", content |-> <<>>]
RespNone == [kind |-> "none", content |-> <<>>]
RespText(s) == [kind |-> "text", content |-> s]

\* result after the two fence tests
CleanResponse(content) ==
    LET r0 == strip(content)
        r1 == IF startswith(r0, FenceJson) THEN DropFirst(r0, 7) ELSE r0
    IN  IF endswith(r1, Fence) THEN DropLast(r1, 3) ELSE r1

\* a plausible slip: what was stamped before the failing item is returned
structure_menu_partial(resp, now) ==
    IF resp.kind # "text" THEN JArr(<<>>)
    ELSE LET parsed == json_loads(CleanResponse(resp.content)) IN
         IF ~parsed.ok THEN JArr(<<>>)
         ELSE IF parsed.val.t = "arr"
         THEN JArr(StampAll(parsed.val.v, now, <<>>).items)
         ELSE JArr(<<>>)

\* the value structure_menu_simple returns: a list, or the empty dict or the
\* empty string the model answered with (the loop has nothing to stamp)
structure_menu_simple(resp, now) ==
    IF resp.kind # "text" THEN JArr(<<>>)
    ELSE LET parsed == json_loads(CleanResponse(resp.content)) IN
         IF ~parsed.ok THEN JArr(<<>>)
         ELSE IF parsed.val.t = "arr"
         THEN LET st == StampAll(parsed.val.v, now, <<>>) IN
              IF st.done THEN JArr(st.items) ELSE JArr(<<>>)
         ELSE IF parsed.val.t = "obj"
         THEN IF DOMAIN parsed.val.v = {} THEN parsed.val ELSE JArr(<<>>)
         ELSE IF parsed.val.t = "str"
         THEN IF parsed.val.v = <<>> THEN parsed.val ELSE JArr(<<>>)
         ELSE JArr(<<>>)

\* bool(v) of a returned value
Truthy(v) ==
    CASE v.t = "arr" -> v.v # <<>>
      [] v.t = "str" -> v.v # <<>>
      [] v.t = "obj" -> DOMAIN v.v # {}
      [] OTHER -> TRUE

(***************************************************************************)
(* streamlit_app.py: the data frame and the sidebar filters of main.       *)
(* A cell is a string; NaN is the missing cell (None, NaN), PyTrue and     *)
(* PyFalse are the booleans.                                               *)
(***************************************************************************)
NaN == "NaN"
PyTrue == "True"
PyFalse == "False"

\* the keys of the fetched rows
RowKeys(rows) == UNION {DOMAIN rows[i] : i \in 1..Len(rows)}

\* pd.DataFrame(rows): a column per key, NaN where a row lacks the key
DataFrame(rows) ==
    [columns |-> RowKeys(rows),
     rows |-> [i \in 1..Len(rows) |->
                 [c \in RowKeys(rows) |->
                     IF c \in DOMAIN rows[i] THEN rows[i][c] ELSE NaN]]]

\* df.empty
IsEmpty(df) == df.rows = <<>> \/ df.columns = {}

\* the options of the category selectbox
categories(df) ==
    {"All"} \cup
    (IF "category" \in df.columns
     THEN {df.rows[i].category : i \in 1..Len(df.rows)} \ {NaN, "", " "}
     ELSE {})

\* rows[rows[col] == value]
WhereEq(rows, col, value) ==
    LET Keep(r) == r[col] = value IN SelectSeq(rows, Keep)

\* a plausible slip: the gluten-free filter taken from df, not from filtered_df
apply_filters_gf_from_df(df, selected_category, show_vegetarian, show_gluten_free) ==
    LET f1 == IF selected_category # "All" /\ "category" \in df.columns
              THEN WhereEq(df.rows, "category", selected_category) ELSE df.rows
        f2 == IF show_vegetarian /\ "is_vegetarian" \in df.columns
              THEN WhereEq(f1, "is_vegetarian", PyTrue) ELSE f1
    IN  IF show_gluten_free /\ "is_gluten_free" \in df.columns
        THEN WhereEq(df.rows, "is_gluten_free", PyTrue) ELSE f2

\* filtered_df after the three filters (a filter keeps the columns)
apply_filters(df, selected_category, show_vegetarian, show_gluten_free) ==
    LET f1 == IF selected_category # "All" /\ "category" \in df.columns
              THEN WhereEq(df.rows, "category", selected_category) ELSE df.rows
        f2 == IF show_vegetarian /\ "is_vegetarian" \in df.columns
              THEN WhereEq(f1, "is_vegetarian", PyTrue) ELSE f1
    IN  IF show_gluten_free /\ "is_gluten_free" \in df.columns
        THEN WhereEq(f2, "is_gluten_free", PyTrue) ELSE f2

(***************************************************************************)
(* The files, the remote table and the clock.                              *)
(***************************************************************************)
\* data/menu_data.json: absent, not JSON ("malformed"), or a JSON value
AbsentFile == [kind |-> "absent", val |-> JArr(<<>>)]
MalformedFile == [kind |-> "malformed", val |-> JArr(<<>>)]
JsonFile(v) == [kind |-> "json", val |-> v]

\* data/raw_blob.txt
AbsentRaw == [exists |-> FALSE, text |-> ""]

\* the cache of st.cache_data: ttl is the argument of the decorator, in seconds
ttl == 3600

\* the clock advances in steps of half the cache window
TickStep == ttl \div 2

Tick ==
    /\ clock < MaxTicks * TickStep
    /\ clock' = clock + TickStep
    /\ UNCHANGED <<arg, ret, fpc, rawFile, menuFile, table, loader, prevRun, dash>>

\* the identifiers of the rows of the table
Ids(t) == {t[k].id : k \in 1..Len(t)}

\* at most one row per identifier
UniqueIds(t) == \A j, k \in 1..Len(t) : t[j].id = t[k].id => j = k

\* the row after a conflicting upsert: the columns of the payload overwrite
Merge(row, item) ==
    [c \in DOMAIN row \cup DOMAIN item |-> IF c \in DOMAIN item THEN item[c] ELSE row[c]]

\* a plausible slip: an insert, which adds a row whatever the table holds
Insert(t, item) == Append(t, item)

\* supabase.table('chickfila_menu').upsert(item).execute(), successful:
\* insert, or update the row of the same identifier (the primary key)
Upsert(t, item) ==
    IF item.id \in Ids(t)
    THEN [k \in 1..Len(t) |-> IF t[k].id = item.id THEN Merge(t[k], item) ELSE t[k]]
    ELSE Append(t, item)

(***************************************************************************)
(* collector.py: scrape_chickfila_menu.  The page text is opaque; the      *)
(* request fails or the text is written over data/raw_blob.txt.            *)
(***************************************************************************)
Collect ==
    /\ \E fetched \in BOOLEAN :
          rawFile' = IF fetched THEN [exists |-> TRUE, text |-> "page"] ELSE rawFile
    /\ UNCHANGED <<arg, ret, fpc, clock, menuFile, table, loader, prevRun, dash>>

(***************************************************************************)
(* structurer.py: the script.  The model's answer is any of PipeResponses. *)
(***************************************************************************)
Nl == <<"\n">>

PipeResponses ==
    { RespRaise,
      RespText(FenceJson \o Nl \o <<"[", "{A2}", "]">> \o Nl \o Fence),
      RespText(Fence \o Nl \o <<"[", "{A1}", "]">> \o Nl \o Fence),
      RespText(<<"[", "{A1}", ",", "7", "]">>) }

Structure ==
    /\ \E resp \in PipeResponses :
          LET menu_items == structure_menu_simple(resp, clock) IN
          menuFile' = IF rawFile.exists /\ Truthy(menu_items)
                      THEN JsonFile(menu_items) ELSE menuFile
    /\ UNCHANGED <<arg, ret, fpc, clock, rawFile, table, loader, prevRun, dash>>

(***************************************************************************)
(* loader.py: main, one step per record.                                   *)
(*   pc         "idle", "loop" (in the for loop), "done" (the summary is   *)
(*              printed) or "aborted" (the outer except)                   *)
(*   file       the file as read;  items  menu_items;  i  the next record  *)
(*   successful the counter;  reported  the count printed at the end (-1   *)
(*              before)                                                    *)
(*   log        the lines printed, each for a record (rec, 0 for the run)  *)
(*              with kind "success", "failed", "error" (the inner except)  *)
(*              or "fatal" (the outer except)                              *)
(*   attempted  the records passed to upsert;  completed  the records      *)
(*              whose upsert returned without error;  runs  the runs       *)
(*              started so far                                             *)
(***************************************************************************)
FreshLoader ==
    [pc |-> "idle", file |-> AbsentFile, items |-> <<>>, i |-> 0, successful |-> 0,
     reported |-> -1, log |-> <<>>, attempted |-> {}, completed |-> {}, runs |-> 0]

NoPrevRun == [valid |-> FALSE, file |-> AbsentFile, table |-> <<>>, allOk |-> FALSE]

LogLine(r, k) == [rec |-> r, kind |-> k]

\* a plausible slip: the loader stamps extracted_at again as well
StampUpdated_restamp(d, now) == SetKey(SetKey(d, "updated_at", now), "extracted_at", now)

\* item['updated_at'] = datetime.now().isoformat(); extracted_at is left
\* alone, since no value read from JSON has an isoformat attribute
StampUpdated(d, now) == SetKey(d, "updated_at", now)

\* open and json.load, create_client, successful = 0 and the loop's start
LoaderStart ==
    /\ loader.pc # "loop"
    /\ loader.runs < MaxLoaderRuns
    /\ prevRun' = IF loader.pc = "done"
                  THEN [valid |-> TRUE, file |-> loader.file, table |-> table,
                        allOk |-> loader.completed = 1..Len(loader.items)]
                  ELSE NoPrevRun
    /\ loader' =
          IF menuFile.kind = "json" /\ menuFile.val.t = "arr"
          THEN [FreshLoader EXCEPT !.pc = "loop", !.file = menuFile,
                                   !.items = menuFile.val.v, !.i = 1,
                                   !.runs = loader.runs + 1]
          ELSE [FreshLoader EXCEPT !.pc = "aborted", !.file = menuFile,
                                   !.log = <<LogLine(0, "fatal")>>,
                                   !.runs = loader.runs + 1]
    /\ UNCHANGED <<arg, ret, fpc, clock, rawFile, menuFile, table, dash>>

\* one record: what the upsert does is up to the remote store
UpsertOutcomes == {"ok", "error_response", "raise"}

LoaderItem ==
    /\ loader.pc = "loop"
    /\ loader.i <= Len(loader.items)
    /\ LET i == loader.i
           item == loader.items[i]
       IN  IF item.t # "obj"
           THEN \* item[...] = ... raises, and so does item.get in the handler
                /\ loader' = [loader EXCEPT !.pc = "aborted",
                                !.log = Append(@, LogLine(0, "fatal"))]
                /\ table' = table
           ELSE \E outcome \in UpsertOutcomes :
                LET payload == StampUpdated(item.v, clock)
                    named == "name" \in DOMAIN item.v
                IN  /\ outcome = "ok" => "id" \in DOMAIN payload
                    /\ table' = IF outcome = "ok" THEN Upsert(table, payload) ELSE table
                    /\ loader' =
                          [loader EXCEPT
                             !.i = i + 1,
                             !.attempted = @ \cup {i},
                             !.completed = IF outcome = "ok" THEN @ \cup {i} ELSE @,
                             !.successful = IF outcome = "ok" THEN @ + 1 ELSE @,
                             !.log = Append(@, LogLine(i,
                                 IF outcome = "raise" \/ ~named THEN "error"
                                 ELSE IF outcome = "ok" THEN "success"
                                 ELSE "failed"))]
    /\ UNCHANGED <<arg, ret, fpc, clock, rawFile, menuFile, prevRun, dash>>

\* the summary line after the loop
LoaderFinish ==
    /\ loader.pc = "loop"
    /\ loader.i > Len(loader.items)
    /\ loader' = [loader EXCEPT !.pc = "done", !.reported = loader.successful]
    /\ UNCHANGED <<arg, ret, fpc, clock, rawFile, menuFile, table, prevRun, dash>>

(***************************************************************************)
(* streamlit_app.py: one run of main up to the data frame, with            *)
(* get_menu_data under @st.cache_data(ttl=3600).                           *)
(*   cache    the cached return value and when it was computed             *)
(*   df       the data frame of the last run                               *)
(*   queried  whether the last run sent the select to the remote table     *)
(***************************************************************************)
EmptyFrame == DataFrame(<<>>)

FreshDash ==
    [cache |-> [valid |-> FALSE, at |-> 0, data |-> EmptyFrame],
     df |-> EmptyFrame, queried |-> FALSE]

\* a plausible slip: no cache in front of the query
CacheNever(cache, now) == FALSE

\* a cached value is served while the clock is before its expiry
CacheHit(cache, now) == cache.valid /\ now < cache.at + ttl

\* get_menu_data's body: the rows selected, or the empty frame on an error
get_menu_data(fetched) == IF fetched THEN DataFrame(table) ELSE EmptyFrame

Render ==
    /\ IF CacheHit(dash.cache, clock)
       THEN dash' = [dash EXCEPT !.df = dash.cache.data, !.queried = FALSE]
       ELSE \E fetched \in BOOLEAN :
               dash' = [cache |-> [valid |-> TRUE, at |-> clock,
                                   data |-> get_menu_data(fetched)],
                        df |-> get_menu_data(fetched), queried |-> TRUE]
    /\ UNCHANGED <<arg, ret, fpc, clock, rawFile, menuFile, table, loader, prevRun>>

(***************************************************************************)
(* Specifications.  A functional specification draws the argument of one   *)
(* function in its initial state and applies the function; the pipeline    *)
(* is idle in it.                                                          *)
(***************************************************************************)
PipelineIdle ==
    /\ rawFile = AbsentRaw
    /\ menuFile = AbsentFile
    /\ table = <<>>
    /\ loader = FreshLoader
    /\ prevRun = NoPrevRun
    /\ dash = FreshDash

PipelineUnchanged == UNCHANGED <<clock, rawFile, menuFile, table, loader, prevRun, dash>>

(***************************************************************************)
(* clean_calories on every calories cell.                                  *)
(***************************************************************************)
Cal360 == <<"3", "6", "0", " ", "C", "a", "l">>
CalNoCals == <<"N", "o", " ", "c", "a", "l", "s">>
CalPieces == <<"5", " ", "p", "i", "e", "c", "e", "s", ",", " ",
               "2", "3", "0", " ", "C", "a", "l">>

CalChars == {"0", "3", "6", " ", "C"}

CalCell(s) == [isna |-> FALSE, s |-> s]
CalMissing == [isna |-> TRUE, s |-> <<>>]

CaloriesArgs ==
    {CalMissing} \cup
    {CalCell(s) : s \in SeqsUpTo(CalChars, MaxCalLen) \cup {Cal360, CalNoCals, CalPieces}}

InitCalories ==
    /\ arg \in CaloriesArgs
    /\ ret = NoneInt
    /\ fpc = "call"
    /\ clock = 0
    /\ PipelineIdle

ApplyCalories ==
    /\ fpc = "call"
    /\ ret' = clean_calories(arg)
    /\ fpc' = "done"
    /\ arg' = arg
    /\ PipelineUnchanged

SpecCalories == InitCalories /\ [][ApplyCalories]_vars

(***************************************************************************)
(* The allergen loop on every allergens column.                            *)
(***************************************************************************)
Wheat == <<"w", "h", "e", "a", "t">>
Dairy == <<"d", "a", "i", "r", "y">>
Quoted(s) == <<"\"">> \o s \o <<"\"">>

WheatDairyList == <<JStr(Wheat), JStr(Dairy)>>
WheatDairyComma == Wheat \o <<",", " ">> \o Dairy
WheatDairyJson == <<"[">> \o Quoted(Wheat) \o <<",">> \o Quoted(Dairy) \o <<"]">>
PaddedJson == <<" ", "[">> \o Quoted(<<"w">>) \o <<"]", " ">>
BrokenJson == <<"[">> \o Quoted(Wheat) \o <<",", "]">>

AllergenChars == {"[", "]", ",", "\"", " ", "w"}

AllergenExamples ==
    {StrCell(WheatDairyComma), StrCell(WheatDairyJson), StrCell(PaddedJson),
     StrCell(BrokenJson), StrCell(<<>>), ListCell(WheatDairyList), ListCell(<<>>), NanCell}

AllergenArgs ==
    {<<StrCell(s)>> : s \in SeqsUpTo(AllergenChars, MaxAllergenLen)}
    \cup {<<a>> : a \in AllergenExamples}
    \cup {<<a, b>> : a, b \in AllergenExamples}

InitAllergens ==
    /\ arg \in AllergenArgs
    /\ ret = <<>>
    /\ fpc = "call"
    /\ clock = 0
    /\ PipelineIdle

ApplyAllergens ==
    /\ fpc = "call"
    /\ ret' = all_allergens(arg)
    /\ fpc' = "done"
    /\ arg' = arg
    /\ PipelineUnchanged

SpecAllergens == InitAllergens /\ [][ApplyAllergens]_vars

(***************************************************************************)
(* structure_menu_simple on every model response.                          *)
(***************************************************************************)
\* the JSON text of an array of the given literals
RECURSIVE JoinComma(_)
JoinComma(items) ==
    IF items = <<>> THEN <<>>
    ELSE IF Len(items) = 1 THEN <<items[1]>>
    ELSE <<items[1], ",">> \o JoinComma(Tail(items))

ArrayText(items) == <<"[">> \o JoinComma(items) \o <<"]">>

Literals == {"{A1}", "{A2}", "{B}", "7"}

\* texts that are no JSON
InvalidBodies == {<<"x">>, <<"[", "{A1}">>, <<>>}

\* JSON texts that are no array
ScalarBodies == {<<"{A1}">>, <<"{}">>, <<"\"", "\"">>, <<"7">>}

Bodies ==
    {ArrayText(items) : items \in SeqsUpTo(Literals, MaxItems)}
    \cup InvalidBodies \cup ScalarBodies

Openers == {<<>>, <<" ">>, FenceJson, FenceJson \o Nl, Fence \o Nl}
Closers == {<<>>, Fence, Nl \o Fence}

StructureArgs ==
    {RespRaise, RespNone}
    \cup {RespText(o \o b \o c) : o \in Openers, b \in Bodies, c \in Closers}

InitStructure ==
    /\ arg \in StructureArgs
    /\ ret = JArr(<<>>)
    /\ fpc = "call"
    /\ clock \in {0, TickStep}
    /\ PipelineIdle

ApplyStructure ==
    /\ fpc = "call"
    /\ ret' = structure_menu_simple(arg, clock)
    /\ fpc' = "done"
    /\ arg' = arg
    /\ PipelineUnchanged

SpecStructure == InitStructure /\ [][ApplyStructure]_vars

(***************************************************************************)
(* The sidebar filters on every fetch and every setting of the controls.   *)
(***************************************************************************)
FilterColumns == {"category", "is_vegetarian", "is_gluten_free"}

CellsOf(c) ==
    CASE c = "category" -> {"sides", "drinks", NaN}
      [] c = "is_vegetarian" -> {PyTrue, PyFalse, NaN}
      [] c = "is_gluten_free" -> {PyTrue, PyFalse}

\* the rows a select can return from a table with the columns S
RowsOver(S) ==
    {r \in [S -> {"sides", "drinks", NaN, PyTrue, PyFalse}] : \A c \in S : r[c] \in CellsOf(c)}

FilterArgs == UNION {SeqsUpTo(RowsOver(S), MaxDfRows) : S \in SUBSET FilterColumns}

NoRender ==
    [rendered |-> FALSE, df |-> EmptyFrame, selected_category |-> "All",
     show_vegetarian |-> FALSE, show_gluten_free |-> FALSE, filtered |-> <<>>]

InitFilter ==
    /\ arg \in FilterArgs
    /\ ret = NoRender
    /\ fpc = "call"
    /\ clock = 0
    /\ PipelineIdle

\* main from the data frame to filtered_df: nothing is filtered when df.empty
ApplyFilter ==
    /\ fpc = "call"
    /\ LET df == DataFrame(arg) IN
       IF IsEmpty(df)
       THEN ret' = [NoRender EXCEPT !.df = df]
       ELSE \E sel \in categories(df), veg \in BOOLEAN, gf \in BOOLEAN :
               ret' = [rendered |-> TRUE, df |-> df, selected_category |-> sel,
                       show_vegetarian |-> veg, show_gluten_free |-> gf,
                       filtered |-> apply_filters(df, sel, veg, gf)]
    /\ fpc' = "done"
    /\ arg' = arg
    /\ PipelineUnchanged

SpecFilter == InitFilter /\ [][ApplyFilter]_vars

(***************************************************************************)
(* Properties of structure_menu_simple (SpecStructure).                    *)
(***************************************************************************)
\* d is d0 with source_url and extracted_at set and no other field changed
IsStamped(d, d0, now) ==
    /\ DOMAIN d = DOMAIN d0 \cup {"source_url", "extracted_at"}
    /\ d["source_url"] = SOURCE_URL
    /\ d["extracted_at"] = now
    /\ \A k \in DOMAIN d0 \ {"source_url", "extracted_at"} : d[k] = d0[k]

\* v is the list of the objects of the literals, in order, each stamped
IsStampedList(v, literals, now) ==
    /\ v.t = "arr"
    /\ Len(v.v) = Len(literals)
    /\ \A i \in 1..Len(literals) :
          v.v[i].t = "obj" /\ IsStamped(v.v[i].v, ObjOf(literals[i]), now)

ReturnsStamped(opening, closing) ==
    \A o \in opening, c \in closing, items \in SeqsUpTo(ObjAtoms, MaxItems) :
        fpc = "done" /\ arg = RespText(o \o ArrayText(items) \o c)
            => IsStampedList(ret, items, clock)

\* C4: a valid JSON array of item objects between an opening fence, with or
\* without a language tag, and a closing fence is returned as exactly those
\* objects, in order, each stamped with source_url and extracted_at and
\* otherwise unchanged.
C4_FencedArrayReturned ==
    ReturnsStamped({FenceJson \o Nl, Fence \o Nl}, {Fence, Nl \o Fence})

\* the responses of C5: the call fails, the text is no JSON, or stamping
\* raises (an element that is no object, a value that cannot be iterated or
\* whose elements are no objects)
HasNonObject(items) == \E i \in 1..Len(items) : items[i] \notin ObjAtoms

FailingBodies ==
    InvalidBodies \cup {<<"{A1}">>, <<"7">>}
    \cup {ArrayText(items) : items \in {x \in SeqsUpTo(Literals, MaxItems) : HasNonObject(x)}}

FailingArgs ==
    {RespRaise, RespNone}
    \cup {RespText(o \o b \o c) : o \in Openers, b \in FailingBodies, c \in Closers}

\* C5: when the model call fails, the response is not valid JSON, or stamping
\* the parsed records raises, structure_menu_simple returns the empty list,
\* never a partly stamped or partial list.
C5_FailureReturnsEmptyList ==
    fpc = "done" /\ arg \in FailingArgs => ret = JArr(<<>>)

\* an object followed by a number: the first is stamped before the second raises
C5_Witness ==
    /\ fpc = "done"
    /\ arg = RespText(ArrayText(<<"{A1}", "7">>))
    /\ ret = JArr(<<>>)

(***************************************************************************)
(* Properties of clean_calories (SpecCalories).                            *)
(***************************************************************************)
HasDigit(s) == \E i \in 1..Len(s) : s[i] \in DigitChars

\* where the first maximal run of digits of s starts and ends
FirstDigit(s) ==
    CHOOSE i \in 1..Len(s) :
        s[i] \in DigitChars /\ \A j \in 1..(i - 1) : s[j] \notin DigitChars

RunLast(s, i) ==
    CHOOSE e \in i..Len(s) :
        /\ \A k \in i..e : s[k] \in DigitChars
        /\ e = Len(s) \/ s[e + 1] \notin DigitChars

RECURSIVE Pow10(_)
Pow10(n) == IF n = 0 THEN 1 ELSE 10 * Pow10(n - 1)

\* the decimal value of s[i..e]
RECURSIVE RunValue(_, _, _)
RunValue(s, i, e) ==
    IF i > e THEN 0 ELSE DigitVal(s[i]) * Pow10(e - i) + RunValue(s, i + 1, e)

\* C7: clean_calories returns the integer value of the first maximal run of
\* decimal digits of the display string, and none when the string holds no
\* digit or the value is missing: "360 Cal" gives 360, "No cals" and "" give
\* none, "5 pieces, 230 Cal" gives 5.
C7_FirstDigitRun ==
    fpc = "done" =>
        /\ IF arg.isna \/ ~HasDigit(arg.s)
           THEN ret = NoneInt
           ELSE ret = SomeInt(RunValue(arg.s, FirstDigit(arg.s),
                                       RunLast(arg.s, FirstDigit(arg.s))))
        /\ arg = CalCell(Cal360) => ret = SomeInt(360)
        /\ arg = CalCell(CalNoCals) => ret = NoneInt
        /\ arg = CalCell(<<>>) => ret = NoneInt
        /\ arg = CalCell(CalPieces) => ret = SomeInt(5)

C7_Witness == fpc = "done" /\ arg = CalCell(CalPieces) /\ ret = SomeInt(5)

(***************************************************************************)
(* Properties of the allergen loop (SpecAllergens).                        *)
(***************************************************************************)
\* t without its leading and trailing whitespace
Trim(t) ==
    LET Solid == {i \in 1..Len(t) : t[i] \notin Whitespace} IN
    IF Solid = {} THEN <<>>
    ELSE SubSeq(t, CHOOSE i \in Solid : \A j \in Solid : i <= j,
                   CHOOSE i \in Solid : \A j \in Solid : i >= j)

\* the n-th smallest element of a set of numbers
Nth(S, n) == CHOOSE b \in S : Cardinality({x \in S : x < b}) = n - 1

\* the comma-separated parts of s, each trimmed, the empty ones discarded
CommaTags(s) ==
    LET Cuts == {0, Len(s) + 1} \cup {i \in 1..Len(s) : s[i] = ","}
        Part(n) == Trim(SubSeq(s, Nth(Cuts, n) + 1, Nth(Cuts, n + 1) - 1))
        Kept == {n \in 1..(Cardinality(Cuts) - 1) : Part(n) # <<>>}
    IN  [m \in 1..Cardinality(Kept) |-> JStr(Part(Nth(Kept, m)))]

Bracketed(s) == s # <<>> /\ s[1] = "[" /\ s[Len(s)] = "]"

Decoded(s) == IF json_loads(s).ok THEN json_loads(s).val.v ELSE <<>>

\* the tags of a cell: the bracket test is on the string as stored, or
\* (trimmed) on the string with its surrounding whitespace trimmed
TagsOf(a, trimmed) ==
    LET s == IF trimmed THEN Trim(a.str) ELSE a.str IN
    IF a.kind = "list" THEN a.list
    ELSE IF Bracketed(s) THEN Decoded(s)
    ELSE CommaTags(a.str)

RECURSIVE TagsOfColumn(_, _)
TagsOfColumn(column, trimmed) ==
    IF column = <<>> THEN <<>>
    ELSE (IF Head(column).kind = "nan" THEN <<>> ELSE TagsOf(Head(column), trimmed))
         \o TagsOfColumn(Tail(column), trimmed)

AllergenExamplesHold ==
    /\ arg = <<ListCell(WheatDairyList)>> => ret = WheatDairyList
    /\ arg = <<StrCell(WheatDairyComma)>> => ret = WheatDairyList
    /\ arg = <<StrCell(WheatDairyJson)>> => ret = WheatDairyList
    /\ arg = <<StrCell(<<>>)>> => ret = <<>>

\* C8 as stated: a list is used as it is; a string that starts with "[" and
\* ends with "]" contributes its JSON-decoded elements, or nothing when the
\* decoding fails; any other string contributes its comma-separated parts,
\* each trimmed, the empty ones discarded.
C8_AsStated ==
    fpc = "done" => ret = TagsOfColumn(arg, FALSE) /\ AllergenExamplesHold

\* C8 amended: the bracket test and the decoding are on the string with its
\* surrounding whitespace trimmed; the rest is as stated.
C8_Trimmed ==
    fpc = "done" => ret = TagsOfColumn(arg, TRUE) /\ AllergenExamplesHold

C8_Witness ==
    /\ fpc = "done"
    /\ arg = <<StrCell(PaddedJson), StrCell(WheatDairyComma)>>
    /\ ret = <<JStr(<<"w">>)>> \o WheatDairyList

(***************************************************************************)
(* Properties of the sidebar filters (SpecFilter).                         *)
(***************************************************************************)
\* the row passes every active filter whose column the data has
PassesAll(df, r, sel, veg, gf) ==
    /\ sel # "All" /\ "category" \in df.columns => r["category"] = sel
    /\ veg /\ "is_vegetarian" \in df.columns => r["is_vegetarian"] = PyTrue
    /\ gf /\ "is_gluten_free" \in df.columns => r["is_gluten_free"] = PyTrue

\* C6: the filtered rows are exactly the fetched rows that satisfy every
\* active filter together, for every setting of the three controls; a filter
\* whose column is absent removes no row, and a selection that matches no row
\* gives the empty table.
C6_FiltersConjunctive ==
    fpc = "done" /\ ret.rendered =>
        LET Keep(r) == PassesAll(ret.df, r, ret.selected_category,
                                 ret.show_vegetarian, ret.show_gluten_free)
        IN  ret.filtered = SelectSeq(ret.df.rows, Keep)

\* sides and vegetarian-only on two sides, one of them vegetarian
C6_Witness ==
    /\ fpc = "done" /\ ret.rendered
    /\ ret.selected_category = "sides" /\ ret.show_vegetarian /\ ~ret.show_gluten_free
    /\ Len(ret.df.rows) = 2 /\ Len(ret.filtered) = 1
    /\ \A i \in 1..2 : ret.df.rows[i]["category"] = "sides"

(***************************************************************************)
(* The loader alone: its runs on any input file an operator may have left  *)
(* in data/, the clock advancing.                                          *)
(***************************************************************************)
\* the object of a literal as an earlier structurer run (at time 0) wrote it
Stored(a) == JObj(StampExtracted(ObjOf(a), 0))

Seven == JNum(<<"7">>)

InitFiles ==
    { AbsentFile,
      MalformedFile,
      JsonFile(Seven),
      JsonFile(JArr(<<>>)),
      JsonFile(JArr(<<Seven, Stored("{A1}")>>)),
      JsonFile(JArr(<<Stored("{A1}"), Stored("{B}")>>)),
      JsonFile(JArr(<<Stored("{A1}"), Stored("{A2}")>>)) }

FunctionsIdle == arg = <<>> /\ ret = <<>> /\ fpc = "idle"

InitLoader ==
    /\ FunctionsIdle
    /\ clock = 0
    /\ rawFile = AbsentRaw
    /\ menuFile \in InitFiles
    /\ table = <<>>
    /\ loader = FreshLoader
    /\ prevRun = NoPrevRun
    /\ dash = FreshDash

NextLoader ==
    \/ Tick
    \/ LoaderStart
    \/ LoaderItem
    \/ LoaderFinish

SpecLoader == InitLoader /\ [][NextLoader]_vars

(***************************************************************************)
(* The whole system: collector, structurer and loader runs in any order,   *)
(* the dashboard rendering at any time, the clock advancing, from a file   *)
(* of two items left by an earlier structurer run.                         *)
(***************************************************************************)
Init ==
    /\ FunctionsIdle
    /\ clock = 0
    /\ rawFile = AbsentRaw
    /\ menuFile = JsonFile(JArr(<<Stored("{A1}"), Stored("{B}")>>))
    /\ table = <<>>
    /\ loader = FreshLoader
    /\ prevRun = NoPrevRun
    /\ dash = FreshDash

Next ==
    \/ Tick
    \/ Collect
    \/ Structure
    \/ LoaderStart
    \/ LoaderItem
    \/ LoaderFinish
    \/ Render

Spec == Init /\ [][Next]_vars

(***************************************************************************)
(* Properties of the loader (SpecLoader).                                  *)
(***************************************************************************)
\* a loader run on a file that parsed as a JSON array has ended
ArrayRunEnded ==
    /\ loader.pc \in {"done", "aborted"}
    /\ loader.file.kind = "json"
    /\ loader.file.val.t = "arr"

AllObjects(items) == \A i \in 1..Len(items) : items[i].t = "obj"

\* the lines of the log for record i, and the lines of a kind
LinesFor(i) == {n \in 1..Len(loader.log) : loader.log[n].rec = i}
LinesOfKind(k) == {n \in 1..Len(loader.log) : loader.log[n].kind = k}

\* C1: in a run whose file parses as a JSON array, a failure on one record
\* is caught and logged for that record only: the run goes on to its end and
\* every other record is passed to upsert, whatever the failing record is
\* (an element that is no object included).
C1_FailureIsolated ==
    ArrayRunEnded =>
        /\ loader.pc = "done"
        /\ \A i \in 1..Len(loader.items) :
              /\ loader.items[i].t = "obj" => i \in loader.attempted
              /\ Cardinality(LinesFor(i)) = 1

\* C10: in a run whose file parses as a JSON array, each record is logged
\* exactly once, as a success or as a failure, and the count reported at the
\* end is the number of records logged as a success, which is the number of
\* records whose upsert completed without error and at most the number of
\* records.  (Stated here for the arrays whose elements are all objects, the
\* runs that C1's failure does not touch.)
C10_CountMatchesLog ==
    ArrayRunEnded /\ AllObjects(loader.items) =>
        /\ \A i \in 1..Len(loader.items) : Cardinality(LinesFor(i)) = 1
        /\ loader.reported = Cardinality(LinesOfKind("success"))
        /\ Cardinality(LinesOfKind("success")) = Cardinality(loader.completed)
        /\ loader.reported <= Len(loader.items)

\* the rows of t with the identifier id
RowsOf(t, id) == {k \in 1..Len(t) : t[k].id = id}

\* row r is row q in every field but updated_at, which is not earlier
SameButUpdated(r, q) ==
    /\ DOMAIN r = DOMAIN q
    /\ \A c \in DOMAIN r \ {"updated_at"} : r[c] = q[c]
    /\ r["updated_at"] >= q["updated_at"]

\* the run that has ended and the run before it loaded the same file, every
\* upsert of both succeeding
ReloadedUnchanged ==
    /\ loader.pc = "done"
    /\ prevRun.valid
    /\ prevRun.allOk
    /\ loader.completed = 1..Len(loader.items)
    /\ prevRun.file = loader.file

\* C2: loading the same unchanged JSON array twice, all upserts succeeding,
\* leaves exactly one row per identifier, and each row after the second run
\* is the row after the first run in every field except updated_at, which
\* does not go backwards.
C2_ReloadIdempotent ==
    ReloadedUnchanged =>
        /\ \A i \in 1..Len(loader.items) :
              Cardinality(RowsOf(table, loader.items[i].v.id)) = 1
        /\ Len(table) = Len(prevRun.table)
        /\ \A k \in 1..Len(table) :
              \E j \in 1..Len(prevRun.table) :
                  /\ table[k].id = prevRun.table[j].id
                  /\ SameButUpdated(table[k], prevRun.table[j])

\* a reload of two items, later than the first load
C2_Witness ==
    /\ ReloadedUnchanged
    /\ Len(loader.items) = 2
    /\ Len(table) = 2
    /\ \E k \in 1..Len(table) :
          table[k]["updated_at"] > prevRun.table[k]["updated_at"]

(***************************************************************************)
(* Properties of the table (Spec).                                         *)
(***************************************************************************)
\* C3: after any sequence of collector, structurer and loader runs the table
\* holds at most one row per identifier, and no step removes an identifier:
\* an item loaded once stays when later structurer outputs lack it.
C3_NoRowLost == [][UniqueIds(table') /\ Ids(table) \subseteq Ids(table')]_vars

\* the last run loaded a structurer output without item y; y is still there
C3_Witness ==
    /\ loader.pc = "done"
    /\ loader.file = menuFile
    /\ loader.items # <<>>
    /\ loader.completed = 1..Len(loader.items)
    /\ \A i \in 1..Len(loader.items) : loader.items[i].v.id # "y"
    /\ "y" \in Ids(table)

(***************************************************************************)
(* Properties of the dashboard's cache (Spec).                             *)
(***************************************************************************)
\* C9: once a render has fetched the table, every later render within the
\* cache window sends no query and shows the data that fetch returned (the
\* empty data of a failed fetch included) whatever the loader upserted since;
\* the first render after the window queries the table again.
C9_CacheWindow ==
    [][dash' # dash =>
          IF dash.cache.valid /\ clock < dash.cache.at + 3600
          THEN /\ ~dash'.queried
               /\ dash'.df = dash.cache.data
               /\ dash'.cache = dash.cache
          ELSE /\ dash'.queried
               /\ dash'.cache.valid /\ dash'.cache.at = clock
               /\ dash'.df = dash'.cache.data]_vars

\* a render inside the window shows the rows of the fetch, not the table's
C9_Witness ==
    /\ dash.cache.valid
    /\ ~dash.queried
    /\ clock > dash.cache.at
    /\ dash.df = dash.cache.data
    /\ dash.df.rows # <<>>
    /\ dash.df # DataFrame(table)

====
